---- MODULE Spec2Model ----
(***************************************************************************)
(* Model of scripts/waka_yearly_heatmap.py: the WakaTime insights fetcher  *)
(* (fetch_json_with_retry), the day parser (parse_days_insight), the       *)
(* quantile leveler (percentile, make_thresholds, level_for_seconds) and   *)
(* the calendar grid and cell colouring of build_svg.                      *)
(*                                                                         *)
(* Each component has its own specification over the shared variables:     *)
(*   FetchSpec, ParseSpec, LevelSpec, SvgSpec.                             *)
(***************************************************************************)
EXTENDS Integers, Sequences, FiniteSets, TLC

VARIABLES
    \* ---- fetch_json_with_retry
    max_tries,        \* parameter max_tries
    i,                \* loop variable of `for i in range(1, max_tries + 1)`
    requests,         \* number of urlopen() calls issued so far
    last_payload,     \* local last_payload
    pc,               \* "loop" | "returned" | "raised" | "idle"
    result,           \* the returned data (when pc = "returned")
    error,            \* the propagated exception (when pc = "raised")
    hist,             \* the server's answers to the attempts, in order
    \* ---- parse_days_insight
    item,             \* the day entry handled by the last loop iteration
    date_to_seconds,  \* local date_to_seconds (also build_svg's argument)
    prev_series,      \* date_to_seconds before the last iteration
    parsed,           \* number of entries consumed
    ppc,              \* "loop" | "returned" | "raised" | "idle"
    \* ---- make_thresholds / level_for_seconds
    series_vals,      \* the values of the series, in some order
    thresholds,       \* (q25, q50, q75), in quarter seconds
    levels,           \* sec -> level_for_seconds(sec, thresholds)
    lpc,              \* "start" | "ready" | "levelled" | "idle"
    \* ---- build_svg
    start_date, end_date,
    all_dates,        \* list(daterange(start_sunday, end_saturday))
    weeks,            \* the week columns
    cells,            \* the <rect> cells appended so far
    spc               \* "start" | "cells" | "done" | "idle"

vars == << max_tries, i, requests, last_payload, pc, result, error, hist,
           item, date_to_seconds, prev_series, parsed, ppc,
           series_vals, thresholds, levels, lpc,
           start_date, end_date, all_dates, weeks, cells, spc >>

fetchVars == << max_tries, i, requests, last_payload, pc, result, error, hist >>
parseVars == << item, prev_series, parsed, ppc >>
levelVars == << series_vals, levels, lpc >>
svgVars   == << start_date, end_date, all_dates, weeks, cells, spc >>

(***************************************************************************)
(* Bounds of the model.                                                    *)
(***************************************************************************)
MaxTries == 3

(***************************************************************************)
(* Idle values of the components a specification does not exercise.        *)
(***************************************************************************)
NoPayload == [decoded |-> FALSE, has_data |-> FALSE, attempt |-> 0, flag |-> "absent"]
EmptyData == [empty |-> TRUE, attempt |-> 0, flag |-> "absent"]

\* A JSON value as Python sees it after dict.get: None (the key absent, or
\* null), a number, or a string (a sequence of characters).
None == [t |-> "none", n |-> 0, s |-> << >>]
Num(x) == [t |-> "num", n |-> x, s |-> << >>]
Str(x) == [t |-> "str", n |-> 0, s |-> x]

\* item["range"]: absent, a non-dict (a string), or a dict with its "start".
NoRange == [t |-> "none", start |-> None]
\* item["grand_total"]: absent/null, or a dict with its "total_seconds".
NoGrandTotal == [t |-> "none", total_seconds |-> None]

NoItem == [t |-> "none", date |-> None, range |-> NoRange, total |-> None,
           total_seconds |-> None, grand_total |-> NoGrandTotal]
EmptySeries == << >>

FetchIdle ==
    /\ max_tries = 0 /\ i = 0 /\ requests = 0 /\ last_payload = NoPayload
    /\ pc = "idle" /\ result = EmptyData /\ error = "none" /\ hist = << >>

ParseIdle ==
    /\ item = NoItem /\ prev_series = EmptySeries /\ parsed = 0 /\ ppc = "idle"

LevelIdle ==
    /\ series_vals = << >> /\ levels = << >> /\ lpc = "idle"

SvgIdle ==
    /\ start_date = 0 /\ end_date = 0 /\ all_dates = << >> /\ weeks = << >>
    /\ cells = << >> /\ spc = "idle"

(***************************************************************************)
(* fetch_json_with_retry                                                   *)
(***************************************************************************)

\* HTTP statuses the server may answer with: 402, the retryable ones and
\* some other error statuses.
RetryableCodes == {429, 500, 502, 503, 504}
PaymentRequired == {402}
OtherCodes == {401, 404}

\* The values of data["is_up_to_date"]: the key absent, true, false, null.
Flags == {"absent", "true", "false", "null"}

\* What one urlopen()+read()+json.loads() can produce:
\*   json         a decoded JSON object, with or without a "data" object
\*   http         urlopen raises HTTPError(code)
\*   urlerror     urlopen raises URLError (DNS, connection refused)
\*   decode_error read()/json.loads/payload.get raises something else (a body
\*                that is not a JSON object, a socket timeout while reading):
\*                neither except clause takes it
Responses ==
    [kind : {"json"}, has_data : {TRUE}, flag : Flags, code : {0}]
      \cup [kind : {"json"}, has_data : {FALSE}, flag : {"absent"}, code : {0}]
      \cup [kind : {"http"}, has_data : {FALSE}, flag : {"absent"},
            code : RetryableCodes \cup PaymentRequired \cup OtherCodes]
      \cup [kind : {"urlerror", "decode_error"}, has_data : {FALSE},
            flag : {"absent"}, code : {0}]

\* range(1, max_tries + 1): the last value the loop variable takes.
\* (LastIndexOffByOne: the faulty range(1, max_tries + 2).)
LastIndexOffByOne(n) == n + 1
LastIndex(n) == n

\* payload = json.loads(...): the payload fetched by attempt k.
Payload(r, k) == [decoded |-> TRUE, has_data |-> r.has_data, attempt |-> k, flag |-> r.flag]

\* payload.get("data", {})  /  last_payload["data"]
DataOf(p) ==
    IF p.has_data THEN [empty |-> FALSE, attempt |-> p.attempt, flag |-> p.flag]
    ELSE EmptyData

\* data.get("is_up_to_date", True), as a truth value
\* (IsUpToDateFailClosed: the faulty data.get("is_up_to_date"), default None.)
IsUpToDateFailClosed(d) == d.flag = "true"
IsUpToDate(d) == d.flag \in {"absent", "true"}

\* e.code in (429, 500, 502, 503, 504)
\* (IsRetryableAnyStatus: the faulty variant that retries every error status.)
IsRetryableAnyStatus(code) == code >= 400
IsRetryable(code) == code \in RetryableCodes

\* Line 47: last_payload = payload
\* (KeepFirstPayload: the faulty variant that keeps the first payload decoded.)
KeepFirstPayload(lp, payload) == IF lp.decoded THEN lp ELSE payload
NextLastPayload(lp, payload) == payload

\* Lines 74-77: the code after the loop.
AfterLoop(lp) ==
    IF lp.decoded /\ lp.has_data THEN DataOf(lp) ELSE EmptyData

\* The end of an iteration that neither returned nor raised (the sleep, then
\* the next value of i); after the last iteration lines 74-77 follow.
Retry(lp) ==
    IF i + 1 >= LastIndex(max_tries)
    THEN /\ pc' = "returned"
         /\ result' = AfterLoop(lp)
         /\ error' = error
    ELSE UNCHANGED << pc, result, error >>

\* One iteration of the loop (lines 42-72) with the server answering r.
Attempt(r) ==
    /\ pc = "loop"
    /\ i < LastIndex(max_tries)
    /\ i' = i + 1
    /\ requests' = requests + 1
    /\ hist' = Append(hist, r)
    /\ max_tries' = max_tries
    /\ CASE r.kind = "json" ->
              LET payload == Payload(r, i + 1)
                  data == DataOf(payload)
              IN /\ last_payload' = NextLastPayload(last_payload, payload)
                 /\ IF IsUpToDate(data)
                    THEN /\ pc' = "returned"
                         /\ result' = data
                         /\ error' = error
                    ELSE Retry(last_payload')
         [] r.kind = "http" ->
              /\ last_payload' = last_payload
              /\ IF r.code \in PaymentRequired
                 THEN /\ pc' = "raised"
                      /\ error' = "RuntimeError"
                      /\ result' = result
                 ELSE IF IsRetryable(r.code)
                 THEN Retry(last_payload)
                 ELSE /\ pc' = "raised"
                      /\ error' = "HTTPError"
                      /\ result' = result
         [] r.kind = "urlerror" ->
              /\ last_payload' = last_payload
              /\ Retry(last_payload)
         [] r.kind = "decode_error" ->
              /\ last_payload' = last_payload
              /\ pc' = "raised"
              /\ error' = "OtherError"
              /\ result' = result

FetchStep ==
    /\ \E r \in Responses : Attempt(r)
    /\ UNCHANGED << parseVars, date_to_seconds, levelVars, thresholds, svgVars >>

FetchInit ==
    /\ max_tries \in 1..MaxTries
    /\ i = 0 /\ requests = 0 /\ last_payload = NoPayload
    /\ pc = "loop" /\ result = EmptyData /\ error = "none" /\ hist = << >>
    /\ ParseIdle /\ date_to_seconds = EmptySeries
    /\ LevelIdle /\ thresholds = << 0, 0, 0 >>
    /\ SvgIdle

FetchNext == FetchStep

\* The script is sequential: a started fetch keeps running (each request has
\* a 60 s timeout, each sleep is finite).
FetchSpec == FetchInit /\ [][FetchNext]_vars /\ WF_vars(FetchNext)

(***************************************************************************)
(* Properties of fetch_json_with_retry (checked under FetchSpec).          *)
(***************************************************************************)

\* What the server said, read off the recorded answers (not off the code's
\* own classification).
StaleJson(r) == r.kind = "json" /\ r.has_data /\ r.flag \in {"false", "null"}
FreshJson(r) == r.kind = "json" /\ (~r.has_data \/ r.flag \in {"absent", "true"})
TransientHttp(r) == r.kind = "http" /\ r.code \in {429, 500, 502, 503, 504}
FatalHttp(r) == r.kind = "http" /\ r.code \notin {429, 500, 502, 503, 504}
NetworkError(r) == r.kind = "urlerror"
NeverFresh(r) == StaleJson(r) \/ TransientHttp(r) \/ NetworkError(r)

DecodedAttempts == {k \in 1..Len(hist) : hist[k].kind = "json"}
LastDecoded == CHOOSE k \in DecodedAttempts : \A m \in DecodedAttempts : m <= k

\* C1: when all max_tries attempts are consumed and none of them was answered
\* with an up-to-date response (each was stale, a retryable HTTP status or a
\* network error), the fetch has returned, not raised: it returned the data
\* of the most recently decoded payload, or the empty result if no attempt
\* decoded one.
C1_ExhaustionReturnsLastPayload ==
    (Len(hist) = max_tries /\ \A k \in 1..Len(hist) : NeverFresh(hist[k]))
        => /\ pc = "returned"
           /\ error = "none"
           /\ IF DecodedAttempts = {}
              THEN result = EmptyData
              ELSE result = [empty |-> FALSE, attempt |-> LastDecoded,
                             flag |-> hist[LastDecoded].flag]

\* Two stale payloads, then a retryable status on the last attempt: the
\* second payload's data is returned.
C1_Witness ==
    /\ max_tries = 3 /\ Len(hist) = 3
    /\ StaleJson(hist[1]) /\ StaleJson(hist[2]) /\ TransientHttp(hist[3])
    /\ pc = "returned" /\ result.attempt = 2

\* C2: the fetch issues at most max_tries requests, every answer (stale,
\* retryable status, network error, or any other) consumes exactly one
\* attempt of the one budget, and the fetch terminates.
C2_AtMostMaxTriesRequests ==
    /\ [](/\ requests <= max_tries
          /\ requests = i
          /\ requests = Len(hist))
    /\ <>(pc \in {"returned", "raised"})

\* A stale answer, a retryable status and a network error in one run: three
\* requests, and the fetch is over.
C2_Witness ==
    /\ max_tries = 3 /\ requests = 3 /\ Len(hist) = 3
    /\ \E a, b, c \in 1..3 :
          StaleJson(hist[a]) /\ TransientHttp(hist[b]) /\ NetworkError(hist[c])
    /\ pc = "returned"

\* C3: an HTTP 402, and any HTTP error status outside 429/500/502/503/504,
\* ends the fetch with an error on the attempt where it occurs (no later
\* request), whatever was decoded before; a status among 429/500/502/503/504
\* never ends the fetch with an error.
C3_FatalStatusesRaiseAtOnce ==
    /\ \A k \in 1..Len(hist) :
          FatalHttp(hist[k]) =>
              /\ k = Len(hist) /\ requests = k
              /\ pc = "raised"
              /\ error = (IF hist[k].code = 402 THEN "RuntimeError" ELSE "HTTPError")
    /\ (pc = "raised" /\ Len(hist) > 0) => ~TransientHttp(hist[Len(hist)])

\* A stale payload was decoded, then 402 arrives with an attempt to spare.
C3_Witness ==
    /\ max_tries = 3 /\ Len(hist) = 2
    /\ StaleJson(hist[1]) /\ hist[2].kind = "http" /\ hist[2].code = 402
    /\ pc = "raised" /\ requests = 2

\* C4: the first decoded response whose is_up_to_date flag is true or absent
\* ends the fetch: its data is returned and no request follows it; a
\* response whose flag is false does not end the fetch while attempts remain.
C4_FirstFreshResponseReturned ==
    \A k \in 1..Len(hist) :
        /\ FreshJson(hist[k]) =>
              /\ k = Len(hist) /\ requests = k
              /\ pc = "returned"
              /\ result = (IF hist[k].has_data
                           THEN [empty |-> FALSE, attempt |-> k, flag |-> hist[k].flag]
                           ELSE EmptyData)
        /\ (hist[k].kind = "json" /\ hist[k].flag = "false" /\ k < max_tries)
              => (pc = "loop" \/ Len(hist) > k)

\* A stale response, then one without the flag: the second one is returned.
C4_Witness ==
    /\ Len(hist) = 2 /\ max_tries = 3
    /\ hist[1].kind = "json" /\ hist[1].flag = "false"
    /\ hist[2].kind = "json" /\ hist[2].has_data /\ hist[2].flag = "absent"
    /\ pc = "returned" /\ result.attempt = 2

(***************************************************************************)
(* parse_days_insight                                                      *)
(***************************************************************************)
MaxDays == 2

D1 == << "2", "0", "2", "4", "-", "0", "1", "-", "0", "1" >>
D2 == << "2", "0", "2", "4", "-", "0", "1", "-", "0", "2" >>
\* "2024-01-02T00:00:00Z"
TS2 == D2 \o << "T", "0", "0", ":", "0", "0", ":", "0", "0", "Z" >>
NotANumber == << "n", "/", "a" >>

\* The day entries the response may hold: JSON objects with any combination
\* of the fields below, and a JSON null in place of an object.
DictItems ==
    [t : {"dict"},
     date : {None, Str(<< >>), Str(D1)},
     range : {NoRange, [t |-> "str", start |-> None],
              [t |-> "dict", start |-> None], [t |-> "dict", start |-> Str(TS2)]},
     total : {None, Num(0), Num(50), Str(NotANumber)},
     total_seconds : {None, Num(0), Num(999)},
     grand_total : {NoGrandTotal, [t |-> "dict", total_seconds |-> None],
                    [t |-> "dict", total_seconds |-> Num(7)]}]
NullItem == [NoItem EXCEPT !.t = "null"]
Items == DictItems \cup {NullItem}

\* Python truth value of a value: None, 0 and "" are false.
Truthy(v) ==
    CASE v.t = "none" -> FALSE
      [] v.t = "num" -> v.n # 0
      [] v.t = "str" -> v.s # << >>

\* s[:10]
Slice10(v) == Str(SubSeq(v.s, 1, IF Len(v.s) < 10 THEN Len(v.s) ELSE 10))

\* Lines 89-92: date_str
DateStr(it) ==
    IF Truthy(it.date) THEN it.date
    ELSE IF it.range.t = "dict" /\ Truthy(it.range.start)
         THEN Slice10(it.range.start)
         ELSE it.date

\* (item.get("grand_total") or {}).get("total_seconds")
GrandTotalSeconds(it) ==
    IF it.grand_total.t = "dict" THEN it.grand_total.total_seconds ELSE None

\* Lines 95-100: the `or` chain yields its first truthy operand, else 0.
TotalSeconds(it) ==
    IF Truthy(it.total) THEN it.total
    ELSE IF Truthy(it.total_seconds) THEN it.total_seconds
    ELSE IF Truthy(GrandTotalSeconds(it)) THEN GrandTotalSeconds(it)
    ELSE Num(0)

\* float(x): a number converts to itself; a string converts when it is a
\* decimal numeral and raises ValueError otherwise.
DigitChars == << "0", "1", "2", "3", "4", "5", "6", "7", "8", "9" >>
IsDigit(c) == \E k \in 1..10 : DigitChars[k] = c
DigitVal(c) == (CHOOSE k \in 1..10 : DigitChars[k] = c) - 1
RECURSIVE ParseDigits(_)
ParseDigits(s) ==
    IF s = << >> THEN 0
    ELSE 10 * ParseDigits(SubSeq(s, 1, Len(s) - 1)) + DigitVal(s[Len(s)])
FloatOk(v) ==
    \/ v.t = "num"
    \/ v.t = "str" /\ v.s # << >> /\ \A k \in 1..Len(v.s) : IsDigit(v.s[k])
Float(v) == IF v.t = "num" THEN v.n ELSE ParseDigits(v.s)

\* Whether the loop body raises on this entry: item.get on a non-dict
\* (line 89), float() of a non-numeric total (line 103).
Raises(it) ==
    \/ it.t # "dict"
    \/ Truthy(DateStr(it)) /\ ~FloatOk(TotalSeconds(it))

\* date_to_seconds[date_str] = float(total_seconds)
Store(d, key, v) == [k \in (DOMAIN d) \cup {key} |-> IF k = key THEN v ELSE d[k]]

\* One iteration of `for item in days` (lines 88-103) on the entry it.
ParseItem(it) ==
    /\ ppc = "loop"
    /\ parsed < MaxDays
    /\ parsed' = parsed + 1
    /\ item' = it
    /\ prev_series' = date_to_seconds
    /\ IF Raises(it)
       THEN /\ ppc' = "raised"
            /\ date_to_seconds' = date_to_seconds
       ELSE /\ ppc' = ppc
            /\ date_to_seconds' =
                  IF Truthy(DateStr(it))
                  THEN Store(date_to_seconds, DateStr(it).s, Float(TotalSeconds(it)))
                  ELSE date_to_seconds

\* The list is exhausted: return date_to_seconds (line 105).
ParseReturn ==
    /\ ppc = "loop"
    /\ ppc' = "returned"
    /\ UNCHANGED << item, prev_series, parsed, date_to_seconds >>

ParseInit ==
    /\ item = NoItem /\ prev_series = EmptySeries /\ parsed = 0 /\ ppc = "loop"
    /\ date_to_seconds = EmptySeries
    /\ FetchIdle
    /\ LevelIdle /\ thresholds = << 0, 0, 0 >>
    /\ SvgIdle

ParseStep ==
    /\ \E it \in Items : ParseItem(it)
    /\ UNCHANGED << fetchVars, levelVars, thresholds, svgVars >>

ParseEnd ==
    /\ ParseReturn
    /\ UNCHANGED << fetchVars, levelVars, thresholds, svgVars >>

ParseNext == ParseStep \/ ParseEnd

ParseSpec == ParseInit /\ [][ParseNext]_vars

(***************************************************************************)
(* Properties of parse_days_insight (checked under ParseSpec).             *)
(***************************************************************************)

\* The entry's date as the claims read it: the date field, else the first
\* ten characters of range.start; << >> when there is neither.
ResolvableDate(it) ==
    IF it.date.t = "str" /\ it.date.s # << >> THEN it.date.s
    ELSE IF it.range.t = "dict" /\ it.range.start.t = "str"
         THEN SubSeq(it.range.start.s, 1, 10)
         ELSE << >>

\* The first field that is present, in the order total, total_seconds,
\* grand_total.total_seconds; zero if none is.
FirstPresent(it) ==
    IF it.total.t # "none" THEN it.total
    ELSE IF it.total_seconds.t # "none" THEN it.total_seconds
    ELSE IF it.grand_total.t = "dict" /\ it.grand_total.total_seconds.t # "none"
         THEN it.grand_total.total_seconds
         ELSE Num(0)

\* C5: for an entry with a resolvable date, the seconds stored under that
\* date are the value of the first PRESENT field in the order total,
\* total_seconds, grand_total.total_seconds (zero if none): a lower-priority
\* field is never used when a higher-priority one is present.
C5_FirstPresentFieldWins ==
    (parsed > 0 /\ ppc # "raised" /\ item.t = "dict" /\ ResolvableDate(item) # << >>
       /\ FirstPresent(item).t = "num")
        => /\ ResolvableDate(item) \in DOMAIN date_to_seconds
           /\ date_to_seconds[ResolvableDate(item)] = FirstPresent(item).n

\* C6: parse_days_insight never fails, an entry without a date field and
\* without a range start adds no key, and the entries after it are parsed.
C6_NeverFailsSkipsUndated ==
    /\ ppc # "raised"
    /\ (parsed > 0 /\ ResolvableDate(item) = << >>) => date_to_seconds = prev_series

(***************************************************************************)
(* percentile, make_thresholds, level_for_seconds                          *)
(*                                                                         *)
(* Seconds are integers here.  With p in {0.25, 0.5, 0.75} every value     *)
(* percentile computes is a multiple of 1/4, so thresholds are kept in     *)
(* quarter seconds (4 * the Python value); the arithmetic is exact, as it  *)
(* is in binary floating point for these values.                           *)
(***************************************************************************)
MaxSeries == 3
MaxSec == 3

\* The values a series may hold (a negative one, zero, even positive ones)
\* and the inputs level_for_seconds is asked about (every integer around
\* them, so that inputs fall between the thresholds too).
SecValues == {0 - 1} \cup {2 * k : k \in 0..MaxSec}
ProbeValues == (0 - 1)..(2 * MaxSec + 1)

\* sorted(xs)
RECURSIVE Insert(_, _)
Insert(x, xs) ==
    IF xs = << >> THEN << x >>
    ELSE IF x <= Head(xs) THEN << x >> \o xs
    ELSE << Head(xs) >> \o Insert(x, Tail(xs))
RECURSIVE Sorted(_)
Sorted(xs) == IF xs = << >> THEN << >> ELSE Insert(Head(xs), Sorted(Tail(xs)))

\* [v for v in ... if v > 0]  (line 176)
IsPositive(v) == v > 0
NonZero(xs) == SelectSeq(xs, IsPositive)

\* percentile(sorted_vals, p) with p = p4 / 4; the result in quarter seconds.
percentile(sorted_vals, p4) ==
    IF sorted_vals = << >> THEN 0
    ELSE IF Len(sorted_vals) = 1 THEN 4 * sorted_vals[1]
    ELSE LET idx4 == (Len(sorted_vals) - 1) * p4       \* 4 * idx
             lo == idx4 \div 4                          \* floor(idx)
             hi == IF idx4 % 4 = 0 THEN lo ELSE lo + 1  \* ceil(idx)
             frac4 == idx4 - 4 * lo                     \* 4 * frac
         IN IF lo = hi THEN 4 * sorted_vals[lo + 1]
            ELSE sorted_vals[lo + 1] * (4 - frac4) + sorted_vals[hi + 1] * frac4

make_thresholds(nonzero_seconds) ==
    LET vals == Sorted(nonzero_seconds)
    IN << percentile(vals, 1), percentile(vals, 2), percentile(vals, 3) >>

\* Faulty variants of level_for_seconds: the levels of two buckets
\* exchanged; the zero test written `sec < 0`.
level_for_seconds_swapped(sec, th) ==
    IF sec <= 0 THEN 0
    ELSE IF 4 * sec <= th[1] THEN 1
    ELSE IF 4 * sec <= th[2] THEN 3
    ELSE IF 4 * sec <= th[3] THEN 2
    ELSE 4
level_for_seconds_strict(sec, th) ==
    IF sec < 0 THEN 0
    ELSE IF 4 * sec <= th[1] THEN 1
    ELSE IF 4 * sec <= th[2] THEN 2
    ELSE IF 4 * sec <= th[3] THEN 3
    ELSE 4
level_for_seconds(sec, th) ==
    IF sec <= 0 THEN 0
    ELSE IF 4 * sec <= th[1] THEN 1
    ELSE IF 4 * sec <= th[2] THEN 2
    ELSE IF 4 * sec <= th[3] THEN 3
    ELSE 4

\* Lines 176-177 on the values of a series.
ComputeThresholds ==
    /\ lpc = "start"
    /\ thresholds' = make_thresholds(NonZero(series_vals))
    /\ lpc' = "ready"
    /\ UNCHANGED << series_vals, levels >>

\* level_for_seconds(sec, thresholds) for every input asked about.
LevelQueries ==
    /\ lpc = "ready"
    /\ levels' = [sec \in ProbeValues |-> level_for_seconds(sec, thresholds)]
    /\ lpc' = "levelled"
    /\ UNCHANGED << series_vals, thresholds >>

RECURSIVE SeqsUpTo(_, _)
SeqsUpTo(S, n) ==
    IF n = 0 THEN {<< >>}
    ELSE LET shorter == SeqsUpTo(S, n - 1)
         IN shorter \cup {Append(q, x) : q \in shorter, x \in S}

LevelInit ==
    /\ series_vals \in SeqsUpTo(SecValues, MaxSeries)
    /\ thresholds = << 0, 0, 0 >>
    /\ levels = << >>
    /\ lpc = "start"
    /\ FetchIdle /\ ParseIdle /\ date_to_seconds = EmptySeries /\ SvgIdle

LevelThresholds ==
    /\ ComputeThresholds
    /\ UNCHANGED << fetchVars, parseVars, date_to_seconds, svgVars >>

LevelAsk ==
    /\ LevelQueries
    /\ UNCHANGED << fetchVars, parseVars, date_to_seconds, svgVars >>

LevelNext == LevelThresholds \/ LevelAsk

LevelSpec == LevelInit /\ [][LevelNext]_vars

(***************************************************************************)
(* Properties of the leveler (checked under LevelSpec).                    *)
(***************************************************************************)
NoPositiveValue == \A k \in 1..Len(series_vals) : series_vals[k] <= 0
SeriesValues == {series_vals[k] : k \in 1..Len(series_vals)}

\* C7: with thresholds computed by make_thresholds from the series, the
\* level is monotone in the seconds (a <= b implies level(a) <= level(b))
\* and every level is one of 0, 1, 2, 3, 4.
C7_LevelMonotone ==
    lpc = "levelled" =>
        /\ \A a \in DOMAIN levels : levels[a] \in 0..4
        /\ \A a, b \in DOMAIN levels : a <= b => levels[a] <= levels[b]

\* Three positive values in the series, and two inputs that land in
\* different buckets.
C7_Witness ==
    /\ lpc = "levelled" /\ Len(NonZero(series_vals)) = 3
    /\ thresholds[1] < thresholds[2] /\ thresholds[2] < thresholds[3]
    /\ \E a, b \in DOMAIN levels : a < b /\ levels[a] = 2 /\ levels[b] = 3

\* C8 as stated: with no strictly positive value in the series the
\* thresholds are all zero and EVERY input maps to level 0.
C8_Original_EveryInputLevelZero ==
    (lpc = "levelled" /\ NoPositiveValue) =>
        /\ thresholds = << 0, 0, 0 >>
        /\ \A a \in DOMAIN levels : levels[a] = 0

\* C8 as amended: with no strictly positive value in the series the
\* thresholds are all zero and every value of the series, and the 0 used for
\* a date missing from it (every input <= 0), maps to level 0; a strictly
\* positive input maps to level 4.
C8_DegenerateSeriesLevelZero ==
    (lpc = "levelled" /\ NoPositiveValue) =>
        /\ thresholds = << 0, 0, 0 >>
        /\ \A a \in DOMAIN levels :
              /\ (a \in SeriesValues \cup {0}) => levels[a] = 0
              /\ a <= 0 => levels[a] = 0
              /\ a > 0 => levels[a] = 4

\* An all-zero series, asked about one of its values.
C8_Witness ==
    /\ lpc = "levelled" /\ series_vals = << 0, 0 >>
    /\ 0 \in DOMAIN levels /\ levels[0] = 0

(***************************************************************************)
(* build_svg: the calendar grid (lines 157-177) and the cells (238-260).   *)
(*                                                                         *)
(* A dt.date is its proleptic Gregorian ordinal (date.toordinal()), so     *)
(* date +/- timedelta(days=n) is integer arithmetic and dates compare as   *)
(* integers.  738886 is 2024-01-01, a Monday.                              *)
(***************************************************************************)
MaxSpan == 8
MaxBack == 8

\* start_date: Fri 2023-12-29 .. Thu 2024-01-04, one date of every weekday.
StartDates == 738883..738889

PALETTE == << "#ebedf0", "#9be9a8", "#40c463", "#30a14e", "#216e39" >>
BlankFill == "#ffffff"

\* date.weekday(): Monday = 0 ... Sunday = 6
weekday(d) == (d + 6) % 7

\* dow_sun0 (lines 158-160): Sunday = 0 ... Saturday = 6
\* (dow_mon0: the faulty variant without the shift, Monday = 0.)
dow_mon0(d) == weekday(d)
dow_sun0(d) == (weekday(d) + 1) % 7

\* date.isoformat(): the ordinal's year, month and day (as datetime's
\* _ord2ymd computes them), written YYYY-MM-DD.
DaysInMonth == << 31, 28, 31, 30, 31, 30, 31, 31, 30, 31, 30, 31 >>
RECURSIVE DaysBeforeMonth(_)
DaysBeforeMonth(m) == IF m <= 1 THEN 0 ELSE DaysBeforeMonth(m - 1) + DaysInMonth[m - 1]
Ord2Ymd(ordinal) ==
    LET n0 == ordinal - 1
        n400 == n0 \div 146097
        r400 == n0 % 146097
        n100 == r400 \div 36524
        r100 == r400 % 36524
        n4 == r100 \div 1461
        r4 == r100 % 1461
        n1 == r4 \div 365
        n == r4 % 365
        year == n400 * 400 + 1 + n100 * 100 + n4 * 4 + n1
    IN IF n1 = 4 \/ n100 = 4 THEN << year - 1, 12, 31 >>
       ELSE LET leap == n1 = 3 /\ (n4 # 24 \/ n100 = 3)
                m0 == (n + 50) \div 32
                before0 == DaysBeforeMonth(m0) + (IF m0 > 2 /\ leap THEN 1 ELSE 0)
                month == IF before0 > n THEN m0 - 1 ELSE m0
                before == IF before0 > n
                          THEN before0 - (DaysInMonth[m0 - 1]
                                          + (IF m0 - 1 = 2 /\ leap THEN 1 ELSE 0))
                          ELSE before0
            IN << year, month, n - before + 1 >>
Digit(k) == DigitChars[k + 1]
isoformat(d) ==
    LET ymd == Ord2Ymd(d)
        y == ymd[1]
        m == ymd[2]
        dd == ymd[3]
    IN << Digit(y \div 1000), Digit((y \div 100) % 10), Digit((y \div 10) % 10),
          Digit(y % 10), "-", Digit(m \div 10), Digit(m % 10), "-",
          Digit(dd \div 10), Digit(dd % 10) >>

\* list(daterange(start, end))  (lines 150-154)
daterange(start, end) ==
    IF start <= end THEN [k \in 1..(end - start + 1) |-> start + k - 1] ELSE << >>

\* Lines 167-173: append each date to `week`; a full week goes to `weeks`.
RECURSIVE SplitWeeks(_, _, _)
SplitWeeks(dates, week, wks) ==
    IF dates = << >> THEN wks
    ELSE LET week1 == Append(week, Head(dates))
         IN IF Len(week1) = 7
            THEN SplitWeeks(Tail(dates), << >>, Append(wks, week1))
            ELSE SplitWeeks(Tail(dates), week1, wks)

\* date_to_seconds.values(), and date_to_seconds.get(date_str, 0.0)
RECURSIVE ValuesOf(_, _)
ValuesOf(d, keys) ==
    IF keys = {} THEN << >>
    ELSE LET k == CHOOSE k \in keys : TRUE
         IN << d[k] >> \o ValuesOf(d, keys \ {k})
SeriesGet(d, key) == IF key \in DOMAIN d THEN d[key] ELSE 0

\* Lines 247-251: the cell's fill.
\* (CellFillNoWindow: the faulty variant without the window test.)
CellFillNoWindow(d, sec, th) == PALETTE[level_for_seconds(sec, th) + 1]
CellFill(d, sec, th) ==
    IF d < start_date \/ d > end_date THEN BlankFill
    ELSE PALETTE[level_for_seconds(sec, th) + 1]

\* The <rect> of date d at (col, row)  (lines 241-260).
Cell(col, row, d) ==
    LET date_str == isoformat(d)
        sec == SeriesGet(date_to_seconds, date_str)
    IN [col |-> col, row |-> row, date |-> d, date_str |-> date_str,
        sec |-> sec, fill |-> CellFill(d, sec, thresholds)]

\* Lines 162-177: the grid, the weeks and the thresholds.
BuildGrid ==
    /\ spc = "start"
    /\ LET start_sunday == start_date - dow_sun0(start_date)
           end_saturday == end_date + (6 - dow_sun0(end_date))
           dates == daterange(start_sunday, end_saturday)
           wks == SplitWeeks(dates, << >>, << >>)
       IN /\ all_dates' = dates
          /\ weeks' = wks
          /\ spc' = IF wks = << >> THEN "done" ELSE "cells"
    /\ thresholds' =
          make_thresholds(NonZero(ValuesOf(date_to_seconds, DOMAIN date_to_seconds)))
    /\ UNCHANGED << start_date, end_date, cells, date_to_seconds >>

\* One iteration of `for col, wk in enumerate(weeks)`: the seven cells of
\* the next week column (lines 239-260).
DrawColumn ==
    /\ spc = "cells"
    /\ LET col == Len(cells) \div 7
           wk == weeks[col + 1]
       IN /\ cells' = cells \o [row \in 1..Len(wk) |-> Cell(col, row - 1, wk[row])]
          /\ spc' = IF col + 1 = Len(weeks) THEN "done" ELSE "cells"
    /\ UNCHANGED << start_date, end_date, all_dates, weeks, thresholds, date_to_seconds >>

\* The series build_svg is given: some of these dates, each with a value.
KeyDates == { << "2", "0", "2", "3", "-", "1", "2", "-", "3", "1" >>, D1, D2 }
SvgSeconds == {0, 3600, 7200}
SvgSeries == UNION { [K -> SvgSeconds] : K \in SUBSET KeyDates }

SvgInit ==
    /\ start_date \in StartDates
    /\ end_date \in (start_date - MaxBack)..(start_date + MaxSpan)
    /\ date_to_seconds \in SvgSeries
    /\ all_dates = << >> /\ weeks = << >> /\ cells = << >> /\ spc = "start"
    /\ thresholds = << 0, 0, 0 >>
    /\ FetchIdle /\ ParseIdle /\ LevelIdle

SvgGrid ==
    /\ BuildGrid
    /\ UNCHANGED << fetchVars, parseVars, levelVars >>

SvgColumn ==
    /\ DrawColumn
    /\ UNCHANGED << fetchVars, parseVars, levelVars >>

SvgNext == SvgGrid \/ SvgColumn

SvgSpec == SvgInit /\ [][SvgNext]_vars

(***************************************************************************)
(* Properties of build_svg (checked under SvgSpec).                        *)
(***************************************************************************)

\* Ordinal 738885 is Sunday 2023-12-31 and 738885 = 7 * 105555, so a date is
\* a Sunday exactly when its ordinal is a multiple of 7.
IsSunday(d) == d % 7 = 0
IsSaturday(d) == d % 7 = 6
SundayOnOrBefore(d) == CHOOSE x \in (d - 6)..d : IsSunday(x)
SaturdayOnOrAfter(d) == CHOOSE x \in d..(d + 6) : IsSaturday(x)
GridDates == SundayOnOrBefore(start_date)..SaturdayOnOrAfter(end_date)

\* C9: every date of the grid yields exactly one cell; the cell of a date
\* before start or after end has the blank fill whatever the series holds
\* for it; the cell of a date inside [start, end] has the palette colour of
\* a level in 0..4 computed from its seconds, 0 when the series lacks it.
C9_CellsBlankOutsideWindow ==
    /\ \A k \in 1..Len(cells) :
          LET c == cells[k]
              sec == IF isoformat(c.date) \in DOMAIN date_to_seconds
                     THEN date_to_seconds[isoformat(c.date)] ELSE 0
          IN /\ c.date \in GridDates
             /\ \A m \in 1..Len(cells) : cells[m].date = c.date => m = k
             /\ (c.date < start_date \/ c.date > end_date) => c.fill = "#ffffff"
             /\ (start_date <= c.date /\ c.date <= end_date) =>
                   /\ c.sec = sec
                   /\ \E lvl \in 0..4 :
                         /\ lvl = level_for_seconds(sec, thresholds)
                         /\ c.fill = PALETTE[lvl + 1]
                   /\ c.fill # "#ffffff"
    /\ spc = "done" => \A d \in GridDates : \E k \in 1..Len(cells) : cells[k].date = d

\* Window Mon 2024-01-01 .. Tue 2024-01-02: the padding day 2023-12-31 holds
\* 7200 s in the series and is blank, 2024-01-01 holds 7200 s and is coloured.
C9_Witness ==
    /\ spc = "done" /\ start_date = 738886 /\ end_date = 738887
    /\ Len(cells) = 7
    /\ cells[1].date = 738885 /\ cells[1].sec = 7200 /\ cells[1].fill = "#ffffff"
    /\ cells[2].date = 738886 /\ cells[2].sec = 7200 /\ cells[2].fill # "#ffffff"
    /\ cells[2].fill # "#ebedf0"

\* C10: the grid is the run of dates from the Sunday on or before start to
\* the Saturday on or after end: it begins on that Sunday and ends on that
\* Saturday (when end lies in a week before start's week the run, and so the
\* grid, holds no date); its length is a multiple of 7; the weeks are
\* consecutive groups of exactly 7 dates, each starting on a Sunday, and
\* together they hold every date of the grid.
C10_GridAlignedToWeeks ==
    spc # "start" =>
        LET s == SundayOnOrBefore(start_date)
            e == SaturdayOnOrAfter(end_date)
        IN /\ Len(all_dates) = (IF s <= e THEN e - s + 1 ELSE 0)
           /\ \A k \in 1..Len(all_dates) : all_dates[k] = s + k - 1
           /\ s <= start_date /\ start_date - s < 7 /\ IsSunday(s)
           /\ end_date <= e /\ e - end_date < 7 /\ IsSaturday(e)
           /\ s <= e =>
                 /\ Len(all_dates) >= 7
                 /\ all_dates[1] = s
                 /\ all_dates[Len(all_dates)] = e
           /\ Len(all_dates) % 7 = 0
           /\ Len(weeks) * 7 = Len(all_dates)
           /\ \A w \in 1..Len(weeks) :
                 /\ Len(weeks[w]) = 7
                 /\ IsSunday(weeks[w][1])
                 /\ \A r \in 1..7 : weeks[w][r] = all_dates[7 * (w - 1) + r]

\* start = Mon 2024-01-01, end a week later: the grid starts on Sunday
\* 2023-12-31 and has two weeks.
C10_Witness ==
    /\ spc # "start" /\ start_date = 738886 /\ end_date = 738893
    /\ all_dates[1] = 738885 /\ Len(all_dates) = 14 /\ Len(weeks) = 2

====
